---- MODULE Spec2Model ----
(***************************************************************************)
(* Model of lucida-rs: LucidaService resolution (api/src/lib.rs 125-166)   *)
(* and LucidaClient::try_download_all_countries (api/src/lib.rs 233-288),  *)
(* the multi-country retry loop with its status poll loop.                 *)
(*                                                                         *)
(* Text is modelled as sequences of one-character strings so that          *)
(* str::contains is a real substring search.  One action models the code   *)
(* between two await points of the async function; the server's answers,   *)
(* transport failures and the time a status request takes are inputs.      *)
(***************************************************************************)
EXTENDS Integers, Sequences, FiniteSets, TLC

VARIABLES
    url,               \* argument url of try_download_all_countries
    pc,                \* position in try_download_all_countries
    service,           \* result of LucidaService::from_url(url)
    countries,         \* countries.countries, the codes in server order
    ci,                \* index of `country` in countries (outer for loop)
    attempt,           \* the inner loop variable of `for _ in 0..3`
    id,                \* handoff id of the current job
    status,            \* local `status`
    status_message,    \* local `status_message`
    processing_start,  \* local `processing_start`
    now,               \* the clock read by Utc::now(): seconds since the attempt began
    result,            \* value the call returned ("none" while running)
    http,              \* the HTTP exchange made by the last step
    out,               \* arguments passed to event_callback by the last step
    nStream,           \* fetch_stream calls issued so far
    nDownload,         \* fetch_download calls issued so far
    nCountries,        \* fetch_countries calls issued so far
    polled,            \* some fetch_status call was issued in this call
    emitted,           \* event_callback was invoked in this call
    prevMsg,           \* message of the previous status response of the job
    jobOpen,           \* a job was accepted and has not yet been resolved
    slept,             \* the poll loop has slept since the job's last status request
    filename,          \* DownloadResponse.filename of the download's answer
    caller,            \* position of download_and_save, the caller of the call
    calls,             \* calls of try_download_all_countries made by download_and_save
    caller_log,        \* the error text last logged by download_and_save
    saved,             \* name of the file download_and_save wrote
    env                \* what the server has answered so far in this call:
                       \*   listed: the country list was received
                       \*   accepted: every stream response so far was a success with a handoff id
                       \*   error: every status response so far had status "error"
                       \*   failed: an HTTP call failed in transport or parsing
                       \*   seen: the statuses answered for the current job

vars == <<url, pc, service, countries, ci, attempt, id, status, status_message,
          processing_start, now, result, http, out, nStream,
          nDownload, nCountries, polled, emitted, prevMsg, jobOpen,
          slept, filename, caller, calls, caller_log, saved, env>>

\* the state of download_and_save outside the call
callerVars == <<caller, calls, caller_log, saved>>

-----------------------------------------------------------------------------
(* Bounds of the model *)

MaxCountries == 3
MaxPollTime == 2
MaxCalls == 2
MaxCallbackTime == 1

-----------------------------------------------------------------------------
(* Text *)

qobuz_com == <<"q","o","b","u","z",".","c","o","m">>
tidal_com == <<"t","i","d","a","l",".","c","o","m">>
soundcloud_com == <<"s","o","u","n","d","c","l","o","u","d",".","c","o","m">>
deezer_com == <<"d","e","e","z","e","r",".","c","o","m">>
music_amazon_com == <<"m","u","s","i","c",".","a","m","a","z","o","n",".","c","o","m">>
music_yandex_ru == <<"m","u","s","i","c",".","y","a","n","d","e","x",".","r","u">>

name_qobuz == <<"q","o","b","u","z">>
name_tidal == <<"t","i","d","a","l">>
name_soundcloud == <<"s","o","u","n","d","c","l","o","u","d">>
name_deezer == <<"d","e","e","z","e","r">>
name_amazon == <<"a","m","a","z","o","n">>
name_yandex == <<"y","a","n","d","e","x">>

\* str::contains(pat): pat occurs in s as a contiguous substring
Contains(s, pat) ==
    \E i \in 1..(Len(s) - Len(pat) + 1) : SubSeq(s, i, i + Len(pat) - 1) = pat

-----------------------------------------------------------------------------
(* LucidaService *)

LucidaService == {"Qobuz", "Tidal", "Soundcloud", "Deezer", "AmazonMusic", "YandexMusic"}

None == "None"

\* mutant of as_str: AmazonMusic is given the first label of its domain
as_str_amazon_music(s) ==
    CASE s = "Qobuz" -> name_qobuz
      [] s = "Tidal" -> name_tidal
      [] s = "Soundcloud" -> name_soundcloud
      [] s = "Deezer" -> name_deezer
      [] s = "AmazonMusic" -> <<"m","u","s","i","c">>
      [] s = "YandexMusic" -> name_yandex

as_str(s) ==
    CASE s = "Qobuz" -> name_qobuz
      [] s = "Tidal" -> name_tidal
      [] s = "Soundcloud" -> name_soundcloud
      [] s = "Deezer" -> name_deezer
      [] s = "AmazonMusic" -> name_amazon
      [] s = "YandexMusic" -> name_yandex

from_str(s) ==
    IF s = name_qobuz THEN "Qobuz"
    ELSE IF s = name_tidal THEN "Tidal"
    ELSE IF s = name_soundcloud THEN "Soundcloud"
    ELSE IF s = name_deezer THEN "Deezer"
    ELSE IF s = name_amazon THEN "AmazonMusic"
    ELSE IF s = name_yandex THEN "YandexMusic"
    ELSE None

\* mutant of from_url: an input without a known domain is tried as a name
from_url_or_name(u) ==
    IF Contains(u, qobuz_com) THEN "Qobuz"
    ELSE IF Contains(u, tidal_com) THEN "Tidal"
    ELSE IF Contains(u, soundcloud_com) THEN "Soundcloud"
    ELSE IF Contains(u, deezer_com) THEN "Deezer"
    ELSE IF Contains(u, music_amazon_com) THEN "AmazonMusic"
    ELSE IF Contains(u, music_yandex_ru) THEN "YandexMusic"
    ELSE from_str(u)

\* mutant of from_url: the checks for Tidal and Qobuz change places
from_url_swapped(u) ==
    IF Contains(u, tidal_com) THEN "Tidal"
    ELSE IF Contains(u, qobuz_com) THEN "Qobuz"
    ELSE IF Contains(u, soundcloud_com) THEN "Soundcloud"
    ELSE IF Contains(u, deezer_com) THEN "Deezer"
    ELSE IF Contains(u, music_amazon_com) THEN "AmazonMusic"
    ELSE IF Contains(u, music_yandex_ru) THEN "YandexMusic"
    ELSE None

from_url(u) ==
    IF Contains(u, qobuz_com) THEN "Qobuz"
    ELSE IF Contains(u, tidal_com) THEN "Tidal"
    ELSE IF Contains(u, soundcloud_com) THEN "Soundcloud"
    ELSE IF Contains(u, deezer_com) THEN "Deezer"
    ELSE IF Contains(u, music_amazon_com) THEN "AmazonMusic"
    ELSE IF Contains(u, music_yandex_ru) THEN "YandexMusic"
    ELSE None

-----------------------------------------------------------------------------
(* Inputs: what the caller passes and what the server may answer *)

https == <<"h","t","t","p","s",":","/","/">>
track == <<"/","t","r","a","c","k","/","1">>
example_org == <<"e","x","a","m","p","l","e",".","o","r","g">>

www == <<"w","w","w",".">>
query == <<"?","u","=">>
qobuz_co == <<"q","o","b","u","z",".","c","o">>
amazon_com == <<"a","m","a","z","o","n",".","c","o","m">>

\* inputs of service resolution: each known domain and each short name, alone
\* and inside a url, near misses, and urls that hold two known domains
UrlCores ==
    { qobuz_com, tidal_com, soundcloud_com, deezer_com, music_amazon_com,
      music_yandex_ru,
      name_qobuz, name_tidal, name_soundcloud, name_deezer, name_amazon,
      name_yandex,
      example_org, qobuz_co, amazon_com,
      tidal_com \o query \o qobuz_com,
      music_yandex_ru \o query \o deezer_com,
      music_amazon_com \o query \o soundcloud_com,
      deezer_com \o query \o tidal_com }

Urls == { pre \o core \o suf : pre \in {<<>>, https, https \o www},
                                core \in UrlCores, suf \in {<<>>, track} }

\* urls passed to try_download_all_countries
CallUrls == { https \o qobuz_com \o track, https \o example_org \o track, name_qobuz }

AllCountries == <<"US", "DE", "FR", "JP", "BR">>

\* CountriesResponse.countries: the codes, in the order the server lists them
CountryLists == { SubSeq(AllCountries, 1, n) : n \in 0..MaxCountries }

HandoffIds == {"h1", "h2"}

\* StreamResponse { success, handoff }
StreamResponses == [success : BOOLEAN, handoff : HandoffIds \cup {None}]

Statuses == {"processing", "completed", "error"}
Messages == {"Queued", "Converting"}

\* StatusResponse { status, message }
StatusResponses == [status : Statuses, message : Messages]

\* Option<String> of a file name: None, or Some(name)
NoName == [some |-> FALSE, name |-> <<>>]
SomeName(n) == [some |-> TRUE, name |-> n]

\* seconds one invocation of event_callback may take: the callback is an
\* `impl FnMut(&str)` that the call invokes and waits for
CallbackTimes == 0..MaxCallbackTime

\* DownloadResponse.filename: the filename parameter of the content-disposition
\* header, None without the header or the parameter
Filenames == { NoName, SomeName(<<"s", ".", "f">>), SomeName(<<"a", "/", "b">>) }

\* seconds a fetch_status call of the poll loop may take
PollTimes == 0..MaxPollTime

TimeoutMsg == "Processing timeout, retrying..."
DownloadingMsg == "Downloading stream locally"

-----------------------------------------------------------------------------
(* LucidaClient::try_download_all_countries *)

\* `for _ in 0..3`
MaxAttempts == 3

\* the ceiling of the timeout check, `num_seconds() > 60`
TimeoutSecs == 60

\* sleep(Duration::from_secs(1))
SleepSecs == 1

\* impl From<reqwest::Error> for LucidaError, applied by `?`
FromReqwestError == "RequestFailed"

\* mutant of Rejected: the success flag is ignored
RejectedNever(resp) == FALSE

\* mutant of Rejected: the test is inverted
RejectedInverted(resp) == resp.success

\* `if !stream_response.success { continue; }`
Rejected(resp) == ~resp.success

\* `while status != "completed" && status != "error"`
\* mutant of LoopCond: "or" in place of "and"
LoopCondOr(st) == st # "completed" \/ st # "error"

LoopCond(st) == st # "completed" /\ st # "error"

\* mutant of MessageChanged: every poll's message is emitted
MessageChangedAlways(old, new) == TRUE

\* `if status_message != status_response.message`
MessageChanged(old, new) == old # new

\* `Utc::now().signed_duration_since(processing_start).num_seconds() > 60`
TimedOut(t, start) == t - start > TimeoutSecs

\* mutant of ShouldRetry: the test is inverted
ShouldRetryInverted(st) == st # "error"

\* mutant of ShouldRetry: the `continue` is lost
ShouldRetryNever(st) == FALSE

\* `if status == "error" { continue; }`
ShouldRetry(st) == st = "error"

NoHttp == [op |-> "none", ok |-> TRUE, country |-> None, attempt |-> 0,
           id |-> None, success |-> FALSE, handoff |-> None,
           status |-> None, message |-> None, prev |-> None,
           service |-> None, arrived |-> 0, checked |-> 0, slept |-> FALSE]

\* mutant of NextIter: the attempt loop runs one time too many
NextIterOff(c, a) ==
    IF a + 1 <= MaxAttempts
    THEN [pc |-> "stream", ci |-> c, attempt |-> a + 1, result |-> "none", emit |-> <<>>]
    ELSE IF c < Len(countries)
    THEN [pc |-> "stream", ci |-> c + 1, attempt |-> 0, result |-> "none", emit |-> <<>>]
    ELSE [pc |-> "done", ci |-> c, attempt |-> a, result |-> "NotAvailable", emit |-> <<>>]

\* mutant of NextIter: the loops are nested the other way round, every
\* country is tried once before any country is tried again
NextIterCountryFirst(c, a) ==
    IF c < Len(countries)
    THEN [pc |-> "stream", ci |-> c + 1, attempt |-> a, result |-> "none", emit |-> <<>>]
    ELSE IF a + 1 < MaxAttempts
    THEN [pc |-> "stream", ci |-> 1, attempt |-> a + 1, result |-> "none", emit |-> <<>>]
    ELSE [pc |-> "done", ci |-> c, attempt |-> a, result |-> "NotAvailable", emit |-> <<>>]

\* where `continue` of the attempt loop leads from attempt a of country c:
\* the next attempt, the next country, or the end of both loops
NextIter(c, a) ==
    IF a + 1 < MaxAttempts
    THEN [pc |-> "stream", ci |-> c, attempt |-> a + 1, result |-> "none", emit |-> <<>>]
    ELSE IF c < Len(countries)
    THEN [pc |-> "stream", ci |-> c + 1, attempt |-> 0, result |-> "none", emit |-> <<>>]
    ELSE [pc |-> "done", ci |-> c, attempt |-> a, result |-> "NotAvailable", emit |-> <<>>]

\* the code after the poll loop: retry on "error", else announce the download
AfterLoop(st) ==
    IF ShouldRetry(st)
    THEN NextIter(ci, attempt)
    ELSE [pc |-> "download", ci |-> ci, attempt |-> attempt, result |-> "none",
          emit |-> <<DownloadingMsg>>]

InitWith(U) ==
    /\ url \in U
    /\ pc = "start"
    /\ service = None
    /\ countries = <<>>
    /\ ci = 0
    /\ attempt = 0
    /\ id = None
    /\ status = None
    /\ status_message = None
    /\ processing_start = 0
    /\ now = 0
    /\ result = "none"
    /\ http = NoHttp
    /\ out = <<>>
    /\ nStream = 0
    /\ nDownload = 0
    /\ nCountries = 0
    /\ polled = FALSE
    /\ emitted = FALSE
    /\ prevMsg = None
    /\ jobOpen = FALSE
    /\ slept = FALSE
    /\ filename = NoName
    /\ caller = "calling"
    /\ calls = 1
    /\ caller_log = None
    /\ saved = NoName
    /\ env = [listed |-> FALSE, accepted |-> TRUE, error |-> TRUE, failed |-> FALSE,
              seen |-> {}]

Init == InitWith(CallUrls)

\* let Some(service) = LucidaService::from_url(url) else { return Err(UnknownService) }
Resolve ==
    /\ pc = "start"
    /\ service' = from_url(url)
    /\ IF service' = None
       THEN pc' = "done" /\ result' = "UnknownService"
       ELSE pc' = "countries" /\ result' = result
    /\ http' = NoHttp
    /\ out' = <<>>
    /\ UNCHANGED <<url, countries, ci, attempt, id, status, status_message,
                   processing_start, now, nStream, nDownload, nCountries,
                   polled, emitted, prevMsg, jobOpen, env>>
    /\ UNCHANGED <<slept, filename, callerVars>>

\* mutant of Fail: the error is swallowed and the same call is made again
FailRetry(h) ==
    /\ pc' = pc
    /\ result' = result
    /\ http' = [h EXCEPT !.ok = FALSE]
    /\ out' = <<>>
    /\ env' = [env EXCEPT !.failed = TRUE]

\* an HTTP call failed in transport or parsing: `?` returns the error
Fail(h) ==
    /\ pc' = "done"
    /\ result' = FromReqwestError
    /\ http' = [h EXCEPT !.ok = FALSE]
    /\ out' = <<>>
    /\ env' = [env EXCEPT !.failed = TRUE]

\* let countries = self.fetch_countries(service).await?; and the loop heads.
\* fetch_countries sends the query parameter ("service", service.as_str()).
FetchCountries ==
    /\ pc = "countries"
    /\ nCountries' = nCountries + 1
    /\ \E ok \in BOOLEAN, cs \in CountryLists :
         IF ~ok
         THEN /\ Fail([NoHttp EXCEPT !.op = "countries", !.service = as_str(service)])
              /\ UNCHANGED <<countries, ci, attempt>>
         ELSE /\ countries' = cs
              /\ http' = [NoHttp EXCEPT !.op = "countries", !.service = as_str(service)]
              /\ out' = <<>>
              /\ env' = [env EXCEPT !.listed = TRUE]
              /\ IF cs = <<>>
                 THEN pc' = "done" /\ result' = "NotAvailable" /\ UNCHANGED <<ci, attempt>>
                 ELSE pc' = "stream" /\ result' = result /\ ci' = 1 /\ attempt' = 0
    /\ UNCHANGED <<url, service, id, status, status_message, processing_start,
                   now, nStream, nDownload, polled, emitted, prevMsg, jobOpen>>
    /\ UNCHANGED <<slept, filename, callerVars>>

\* self.fetch_stream(url, Some(&country.code), metadata).await?, the success
\* check and stream_response.handoff.unwrap().  The locals of the loop body
\* (status, status_message, processing_start) are fresh in each iteration, and
\* the code uses the clock only through differences within one iteration, so
\* the clock's origin is moved to the start of the iteration.
FetchStream ==
    /\ pc = "stream"
    /\ nStream' = nStream + 1
    /\ \E ok \in BOOLEAN, resp \in StreamResponses :
         LET h == [NoHttp EXCEPT !.op = "stream", !.country = countries[ci],
                                 !.attempt = attempt, !.success = resp.success,
                                 !.handoff = resp.handoff]
         IN IF ~ok
            THEN /\ Fail(h)
                 /\ UNCHANGED <<ci, attempt, id, jobOpen>>
            ELSE /\ http' = h
                 /\ out' = <<>>
                 /\ env' = [env EXCEPT !.accepted =
                                 @ /\ resp.success /\ resp.handoff # None,
                                            !.seen = {}]
                 /\ jobOpen' = (jobOpen \/ (resp.success /\ resp.handoff # None))
                 /\ IF Rejected(resp)
                    THEN LET n == NextIter(ci, attempt)
                         IN /\ pc' = n.pc /\ ci' = n.ci /\ attempt' = n.attempt
                            /\ result' = n.result /\ id' = id
                    ELSE IF resp.handoff = None
                    THEN /\ pc' = "done" /\ result' = "Panic"
                         /\ UNCHANGED <<ci, attempt, id>>
                    ELSE /\ pc' = "first_status" /\ id' = resp.handoff
                         /\ UNCHANGED <<ci, attempt, result>>
    /\ prevMsg' = None
    /\ status' = None
    /\ status_message' = None
    /\ processing_start' = 0
    /\ now' = 0
    /\ slept' = FALSE
    /\ UNCHANGED <<url, service, countries, nDownload, nCountries, polled, emitted>>
    /\ UNCHANGED <<filename, callerVars>>

\* let mut status_response = self.fetch_status(&id).await?; the first
\* event_callback, processing_start = Utc::now(), and the loop condition.
\* Each event_callback invocation of the step takes cb seconds.
FirstStatus ==
    /\ pc = "first_status"
    /\ polled' = TRUE
    /\ slept' = FALSE
    /\ \E ok \in BOOLEAN, resp \in StatusResponses, cb \in CallbackTimes :
         LET h == [NoHttp EXCEPT !.op = "status", !.id = id, !.country = countries[ci],
                                 !.attempt = attempt, !.status = resp.status,
                                 !.message = resp.message, !.prev = prevMsg,
                                 !.arrived = now, !.checked = now, !.slept = slept]
         IN IF ~ok
            THEN /\ Fail(h)
                 /\ UNCHANGED <<ci, attempt, status, status_message,
                                processing_start, now, emitted, prevMsg, jobOpen>>
            ELSE /\ http' = h
                 /\ status_message' = resp.message
                 /\ status' = resp.status
                 /\ emitted' = TRUE
                 /\ processing_start' = now + cb
                 /\ prevMsg' = resp.message
                 /\ env' = [env EXCEPT !.error = @ /\ resp.status = "error",
                                        !.seen = @ \cup {resp.status}]
                 /\ IF LoopCond(resp.status)
                    THEN /\ pc' = "poll"
                         /\ out' = <<resp.message>>
                         /\ now' = now + cb
                         /\ UNCHANGED <<ci, attempt, result, jobOpen>>
                    ELSE LET n == AfterLoop(resp.status)
                         IN /\ pc' = n.pc /\ ci' = n.ci /\ attempt' = n.attempt
                            /\ result' = n.result
                            /\ out' = <<resp.message>> \o n.emit
                            /\ now' = now + cb * (1 + Len(n.emit))
                            /\ jobOpen' = FALSE
    /\ UNCHANGED <<url, service, countries, id, nStream, nDownload, nCountries>>
    /\ UNCHANGED <<filename, callerVars>>

\* the loop body up to the sleep: fetch_status, which takes `took` seconds,
\* the message comparison with its event_callback, the timeout check, and on
\* a timeout the event_callback of the timeout message and the break
Poll ==
    /\ pc = "poll"
    /\ slept' = FALSE
    /\ \E ok \in BOOLEAN, resp \in StatusResponses, took \in PollTimes,
          cb \in CallbackTimes :
         LET changed == MessageChanged(status_message, resp.message)
             said == IF changed THEN <<resp.message>> ELSE <<>>
             arrived == now + took
             checked == arrived + cb * Len(said)
             h == [NoHttp EXCEPT !.op = "status", !.id = id, !.country = countries[ci],
                                 !.attempt = attempt, !.status = resp.status,
                                 !.message = resp.message, !.prev = prevMsg,
                                 !.arrived = arrived, !.checked = checked,
                                 !.slept = slept]
         IN IF ~ok
            THEN /\ Fail(h)
                 /\ now' = arrived
                 /\ UNCHANGED <<ci, attempt, status, status_message, emitted,
                                prevMsg, jobOpen>>
            ELSE /\ http' = h
                 /\ status_message' = IF changed THEN resp.message ELSE status_message
                 /\ prevMsg' = resp.message
                 /\ env' = [env EXCEPT !.error = @ /\ resp.status = "error",
                                        !.seen = @ \cup {resp.status}]
                 /\ IF TimedOut(checked, processing_start)
                    THEN LET n == AfterLoop("error")
                         IN /\ status' = "error"
                            /\ pc' = n.pc /\ ci' = n.ci /\ attempt' = n.attempt
                            /\ result' = n.result
                            /\ out' = said \o <<TimeoutMsg>> \o n.emit
                            /\ now' = checked + cb * (1 + Len(n.emit))
                            /\ emitted' = TRUE
                            /\ jobOpen' = FALSE
                    ELSE /\ status' = resp.status
                         /\ pc' = "sleep"
                         /\ out' = said
                         /\ now' = checked
                         /\ emitted' = (emitted \/ changed)
                         /\ UNCHANGED <<ci, attempt, result, jobOpen>>
    /\ UNCHANGED <<url, service, countries, id, processing_start, nStream,
                   nDownload, nCountries, polled>>
    /\ UNCHANGED <<filename, callerVars>>

\* sleep(Duration::from_secs(1)).await, then the loop condition and, when the
\* loop ends, the code after it
Sleep ==
    /\ pc = "sleep"
    /\ slept' = TRUE
    /\ http' = NoHttp
    /\ IF LoopCond(status)
       THEN /\ pc' = "poll"
            /\ out' = <<>>
            /\ now' = now + SleepSecs
            /\ UNCHANGED <<ci, attempt, result, jobOpen, emitted>>
       ELSE \E cb \in CallbackTimes :
            LET n == AfterLoop(status)
            IN /\ pc' = n.pc /\ ci' = n.ci /\ attempt' = n.attempt
               /\ result' = n.result
               /\ out' = n.emit
               /\ now' = now + SleepSecs + cb * Len(n.emit)
               /\ emitted' = (emitted \/ n.emit # <<>>)
               /\ jobOpen' = FALSE
    /\ UNCHANGED <<url, service, countries, id, status, status_message,
                   processing_start, nStream, nDownload, nCountries, polled,
                   prevMsg, env>>
    /\ UNCHANGED <<filename, callerVars>>

\* return self.fetch_download(&id).await: the answer's filename is the
\* filename parameter of its content-disposition header, if there is one
Download ==
    /\ pc = "download"
    /\ nDownload' = nDownload + 1
    /\ \E ok \in BOOLEAN, fname \in Filenames :
         LET h == [NoHttp EXCEPT !.op = "download", !.id = id, !.country = countries[ci],
                                 !.attempt = attempt]
         IN IF ~ok
            THEN Fail(h) /\ filename' = filename
            ELSE /\ http' = h
                 /\ out' = <<>>
                 /\ pc' = "done"
                 /\ result' = "Ok"
                 /\ filename' = fname
                 /\ env' = env
    /\ UNCHANGED <<slept, callerVars>>
    /\ UNCHANGED <<url, service, countries, ci, attempt, id, status, status_message,
                   processing_start, now, nStream, nCountries, polled, emitted,
                   prevMsg, jobOpen>>

Next ==
    \/ Resolve
    \/ FetchCountries
    \/ FetchStream
    \/ FirstStatus
    \/ Poll
    \/ Sleep
    \/ Download

Spec == Init /\ [][Next]_vars

-----------------------------------------------------------------------------
(* download_and_save, the caller of try_download_all_countries (main.rs) *)

\* impl Display for LucidaError
Display(e) ==
    CASE e = "UnknownService" -> "unknown service"
      [] e = "NotAvailable" -> "not available"
      [] e = "RequestFailed" -> "request failed"
      [] e = "ServerError" -> "server error"

\* str::replace("/", "&")
ReplaceSlash(name) == [i \in 1..Len(name) |-> IF name[i] = "/" THEN "&" ELSE name[i]]

\* format!("{current}. {filename}") with current = 1
WithCurrent(name) == <<"1", ".", " ">> \o name

\* Err(e) => { log("Download failed, retrying... ({e})"); continue; }: the
\* loop makes the call again, with the same url
Retry ==
    /\ pc = "done"
    /\ caller = "calling"
    /\ result \in {"UnknownService", "NotAvailable", "RequestFailed", "ServerError"}
    /\ calls < MaxCalls
    /\ caller_log' = Display(result)
    /\ calls' = calls + 1
    /\ pc' = "start"
    /\ service' = None
    /\ countries' = <<>>
    /\ ci' = 0
    /\ attempt' = 0
    /\ id' = None
    /\ status' = None
    /\ status_message' = None
    /\ processing_start' = 0
    /\ now' = 0
    /\ result' = "none"
    /\ http' = NoHttp
    /\ out' = <<>>
    /\ nStream' = 0
    /\ nDownload' = 0
    /\ nCountries' = 0
    /\ polled' = FALSE
    /\ emitted' = FALSE
    /\ prevMsg' = None
    /\ jobOpen' = FALSE
    /\ slept' = FALSE
    /\ filename' = NoName
    /\ env' = [listed |-> FALSE, accepted |-> TRUE, error |-> TRUE, failed |-> FALSE,
               seen |-> {}]
    /\ UNCHANGED <<url, caller, saved>>

\* Ok(response): response.filename.unwrap().replace("/", "&"), the optional
\* "{current}. " prefix, fs::write and break
Save ==
    /\ pc = "done"
    /\ caller = "calling"
    /\ result = "Ok"
    /\ IF ~filename.some
       THEN caller' = "panicked" /\ saved' = saved
       ELSE \E append_current \in BOOLEAN :
              /\ saved' = IF append_current
                          THEN SomeName(WithCurrent(ReplaceSlash(filename.name)))
                          ELSE SomeName(ReplaceSlash(filename.name))
              /\ caller' = "saved"
    /\ UNCHANGED <<url, pc, service, countries, ci, attempt, id, status,
                   status_message, processing_start, now, result, http, out,
                   nStream, nDownload, nCountries, polled, emitted, prevMsg,
                   jobOpen, slept, filename, calls, caller_log, env>>

SaveNext == Next \/ Retry \/ Save

SaveSpec == Init /\ [][SaveNext]_vars

\* service resolution alone, over the inputs Urls
ResolveInit == InitWith(Urls)

ResolveNext == Resolve

ResolveSpec == ResolveInit /\ [][ResolveNext]_vars

\* service resolution followed by the country request, which sends the
\* service's short name, over the inputs Urls
CountriesNext == Resolve \/ FetchCountries

CountriesSpec == ResolveInit /\ [][CountriesNext]_vars

-----------------------------------------------------------------------------
(* Properties *)

\* every stream request so far was accepted with a handoff id, every status
\* response so far was "error", and no HTTP call failed
AllAcceptedAllError == env.listed /\ env.accepted /\ env.error /\ ~env.failed

\* C1: for a country list of length N, when every stream request is accepted
\* and every job's status is "error", the call issues exactly 3*N stream
\* requests and then returns NotAvailable; NotAvailable is returned only after
\* 3*N stream requests; for N = 0 it is returned with no stream request, no
\* status poll and no download.
C1_ExhaustsAllCountries ==
    /\ AllAcceptedAllError => nStream <= 3 * Len(countries)
    /\ (pc = "done" /\ AllAcceptedAllError) =>
           (result = "NotAvailable" /\ nStream = 3 * Len(countries))
    /\ (result = "NotAvailable") => nStream = 3 * Len(countries)
    /\ (env.listed /\ Len(countries) = 0) =>
           (pc = "done" /\ result = "NotAvailable" /\ nStream = 0
            /\ ~polled /\ nDownload = 0)

C1_Witness ==
    /\ pc = "done" /\ AllAcceptedAllError /\ polled
    /\ Len(countries) = 2 /\ nStream = 6 /\ result = "NotAvailable"

\* C2: once an attempt has reached the terminal status "completed", no
\* further stream request is issued, for no country; the requests issued are
\* those up to and including that attempt (for the first attempt of the 2nd
\* country: four, none for a later country).
C2_NoRequestAfterCompleted ==
    /\ [](status = "completed" =>
             /\ nStream = 3 * (ci - 1) + attempt + 1
             /\ pc \in {"sleep", "download", "done"})
    /\ [][status = "completed" => nStream' = nStream]_vars

C2_Witness ==
    /\ status = "completed" /\ result = "Ok"
    /\ Len(countries) = 3 /\ ci = 2 /\ attempt = 0 /\ nStream = 4

\* the status messages among the callback's arguments of the last step
IsStatusMessage(m) == m \in Messages
StatusMessagesOf(seq) == SelectSeq(seq, IsStatusMessage)

\* the last step ended the poll loop by the timeout
TimeoutFired == \E i \in 1..Len(out) : out[i] = TimeoutMsg

\* C3: when every status poll of a job answers "processing", the poll loop
\* ends within 60 +/- 1 seconds of the first snapshot, with the status "error"
\* and the timeout message.
C3_TimeoutWithinCeiling ==
    (TimeoutFired /\ env.seen = {"processing"}) =>
        /\ now - processing_start >= 59
        /\ now - processing_start <= 61
        /\ status = "error"

\* C3, the part the code keeps: a job that only ever answers "processing" is
\* given up by the first timeout check made more than 60 seconds after the
\* first snapshot, with status "error" and the timeout message; while the
\* loop is still polling, no check has yet seen more than 60 seconds.
C3_TimeoutAtFirstLateCheck ==
    /\ (TimeoutFired /\ env.seen = {"processing"}) =>
           (now - processing_start > 60 /\ status = "error" /\ pc \in {"stream", "done"})
    /\ (pc = "sleep") => now - processing_start <= 60
    /\ (pc = "poll") => now - processing_start <= 61

C3_Witness ==
    /\ TimeoutFired /\ env.seen = {"processing"}
    /\ now - processing_start = 61 /\ status = "error"

\* C4: while a job is polled the callback gets a status message exactly when
\* the poll's message differs from the message of the previous poll of the
\* job (the first snapshot always), once, in the step that observed it, and
\* no status message is emitted by a step that polls nothing.
C4_EmitOncePerChange ==
    /\ (http.op = "status" /\ http.ok) =>
           StatusMessagesOf(out) =
               IF http.prev = http.message THEN <<>> ELSE <<http.message>>
    /\ (http.op # "status" \/ ~http.ok) => StatusMessagesOf(out) = <<>>
    /\ (http.op = "status" /\ http.ok /\ pc \in {"poll", "sleep"}) =>
           status_message = http.message

C4_Witness ==
    /\ http.op = "status" /\ http.ok /\ pc = "sleep"
    /\ http.prev = http.message /\ out = <<>>
    /\ http.message = "Converting" /\ emitted

\* C5: a transport or parse failure of any HTTP call ends the call at once
\* with RequestFailed: the failing call is the last step, so no request,
\* attempt or country follows it.
C5_TransportFailureAborts ==
    /\ env.failed => (pc = "done" /\ result = "RequestFailed" /\ ~http.ok /\ out = <<>>)
    /\ ~http.ok => env.failed
    /\ (result = "RequestFailed") => env.failed

C5_Witness ==
    /\ env.failed /\ http.op = "status" /\ result = "RequestFailed"
    /\ ci = 1 /\ attempt = 0 /\ Len(countries) = 2

\* C6: after a rejected stream request the callback is not invoked, the next
\* HTTP request (if any) is the stream request of the next attempt of the
\* same country, or of the first attempt of the next country after the third
\* attempt, and after the last attempt of the last country the call returns
\* NotAvailable: no status poll and no download is made for the attempt.
StreamRejected == http.op = "stream" /\ http.ok /\ ~http.success

C6_RejectedSkipsPolling ==
    /\ [](StreamRejected =>
             /\ out = <<>>
             /\ IF http.attempt < 2
                THEN pc = "stream" /\ countries[ci] = http.country
                     /\ attempt = http.attempt + 1
                ELSE IF countries[Len(countries)] # http.country
                THEN pc = "stream" /\ countries[ci - 1] = http.country /\ attempt = 0
                ELSE pc = "done" /\ result = "NotAvailable")
    /\ [][StreamRejected => http'.op = "stream"]_vars

C6_Witness ==
    /\ StreamRejected /\ http.attempt = 2 /\ http.handoff # None
    /\ pc = "stream" /\ ci = 2 /\ attempt = 0

\* C7: a download is requested only for the job whose status at the end of
\* the poll loop is "completed"; DownloadingMsg is emitted last by the step
\* before the download and at no other time; the download's outcome is
\* returned at once; the call succeeds only through a download.
C7_DownloadOnlyWhenCompleted ==
    /\ (pc = "download") =>
           (status = "completed" /\ out # <<>> /\ out[Len(out)] = DownloadingMsg
            /\ id # None /\ nDownload = 0)
    /\ (\E i \in 1..Len(out) : out[i] = DownloadingMsg) => pc = "download"
    /\ (http.op = "download") =>
           (status = "completed" /\ http.id = id /\ pc = "done" /\ nDownload = 1
            /\ result = IF http.ok THEN "Ok" ELSE "RequestFailed")
    /\ (result = "Ok") => (http.op = "download" /\ http.ok)
    /\ (nDownload > 0) => http.op = "download"

C7_Witness ==
    /\ http.op = "download" /\ result = "Ok" /\ status = "completed"
    /\ ci = 2 /\ attempt = 1

\* C8: a stream request is never issued while a job accepted earlier in the
\* call is unresolved; an open job is the one being polled.
C8_OneJobInFlight ==
    /\ [](jobOpen => (pc \in {"first_status", "poll", "sleep"}
                      \/ (pc = "done" /\ env.failed)))
    /\ [][nStream' # nStream => ~jobOpen]_vars

C8_Witness ==
    /\ nStream = 2 /\ polled /\ http.op = "stream" /\ http.success
    /\ jobOpen /\ pc = "first_status"

\* the services in the order in which from_url tests their domains
ServiceOrder == <<"Qobuz", "Tidal", "Soundcloud", "Deezer", "AmazonMusic", "YandexMusic">>

DomainOf(s) ==
    CASE s = "Qobuz" -> qobuz_com
      [] s = "Tidal" -> tidal_com
      [] s = "Soundcloud" -> soundcloud_com
      [] s = "Deezer" -> deezer_com
      [] s = "AmazonMusic" -> music_amazon_com
      [] s = "YandexMusic" -> music_yandex_ru

HasDomain(u) == \E i \in 1..Len(ServiceOrder) : Contains(u, DomainOf(ServiceOrder[i]))

\* the first service in ServiceOrder whose domain occurs in u
FirstDomainMatch(u) ==
    LET i == CHOOSE k \in 1..Len(ServiceOrder) :
                 /\ Contains(u, DomainOf(ServiceOrder[k]))
                 /\ \A j \in 1..(k - 1) : ~Contains(u, DomainOf(ServiceOrder[j]))
    IN ServiceOrder[i]

HasName(u) == \E s \in LucidaService : as_str(s) = u

NoRequestNoCallback ==
    /\ nCountries = 0 /\ nStream = 0 /\ nDownload = 0 /\ ~polled
    /\ ~emitted /\ out = <<>> /\ http.op = "none"

\* C9: when the url holds no supported domain, the call returns
\* UnknownService in its first step, before any HTTP request and without a
\* callback; UnknownService is returned in no other case.
C9_UnknownServiceFailsFast ==
    /\ (~HasDomain(url) /\ pc # "start") =>
           (pc = "done" /\ result = "UnknownService" /\ service = None
            /\ NoRequestNoCallback)
    /\ (result = "UnknownService") => (~HasDomain(url) /\ NoRequestNoCallback)
    /\ (pc = "start") => NoRequestNoCallback

C9_Witness ==
    /\ url = name_qobuz /\ pc = "done" /\ result = "UnknownService"
    /\ NoRequestNoCallback

\* what the resolution of u is said to be: the first domain match, else the
\* service named exactly u, else no service
ResolveDomainThenName(u) ==
    IF HasDomain(u) THEN FirstDomainMatch(u)
    ELSE IF HasName(u) THEN CHOOSE s \in LucidaService : as_str(s) = u
    ELSE None

\* C10 as stated: the service the call resolves is the first domain match,
\* else the service whose short name is the input, else UnknownService.
C10_DomainThenName ==
    (pc # "start") =>
        /\ service = ResolveDomainThenName(url)
        /\ (result = "UnknownService") <=> (ResolveDomainThenName(url) = None)

\* C10 as amended: the service the call resolves is the first service, in
\* ServiceOrder, whose domain occurs in the url; a url without a supported
\* domain yields UnknownService even when it equals a service's short name
\* (exact names are resolved by from_str alone, which the call does not use).
C10_FirstDomainOnly ==
    (pc # "start") =>
        /\ HasDomain(url) =>
               (service = FirstDomainMatch(url) /\ result = "none" /\ pc = "countries")
        /\ ~HasDomain(url) =>
               (service = None /\ result = "UnknownService" /\ pc = "done")

C10_Witness ==
    /\ pc = "done" /\ result = "UnknownService" /\ HasName(url)
    /\ from_str(url) = "Tidal"

\* C11: for every service s, from_str(as_str(s)) = s: the short name that
\* fetch_countries sends for the resolved service is resolved back, by exact
\* match, to that service (and every service is resolved by some input).
C11_NameRoundTrip ==
    (http.op = "countries") =>
        /\ service \in LucidaService
        /\ http.service = as_str(service)
        /\ from_str(http.service) = service
        /\ \A s \in LucidaService : from_str(as_str(s)) = s

C11_Witness ==
    /\ http.op = "countries" /\ http.ok /\ service = "AmazonMusic"
    /\ http.service = name_amazon /\ from_str(http.service) = "AmazonMusic"

\* C12: a download answer without a filename is a successful result with the
\* filename absent, and download_and_save then still writes the file, under a
\* name of its own.
C12_MissingFilenameIsSaved ==
    /\ (http.op = "download" /\ http.ok) => result = "Ok"
    /\ (result = "Ok" /\ ~filename.some) => caller # "panicked"
    /\ (result = "Ok" /\ caller # "calling") => (caller = "saved" /\ saved.some)

\* C13: download_and_save makes no further call after a call that returned
\* UnknownService: it never logs a retry for that error.
C13_UnknownServiceNotRetried ==
    /\ caller_log # Display("UnknownService")
    /\ ~HasDomain(url) => calls = 1

\* a status poll answered in the last step
StatusAnswered == http.op = "status" /\ http.ok

\* C14: the time the consumer of the progress messages takes does not delay
\* the poll loop: the timeout check of a poll is made at the time the poll's
\* answer arrived, and the step that follows a status answer (the sleep, or
\* the first poll of the loop) begins at the time the answer arrived.
C14_CallbackDoesNotDelay ==
    StatusAnswered =>
        /\ http.checked = http.arrived
        /\ (pc \in {"poll", "sleep"}) => now = http.arrived

\* C15: the k-th stream request of a call is for country number
\* ((k-1) div 3) + 1 of the list fetch_countries returned and is that
\* country's attempt number (k-1) mod 3, so the requests are a prefix of
\* c1,c1,c1,c2,c2,c2,...,cN,cN,cN; and a request that is not the first
\* follows an attempt that did not complete.
C15_StreamOrder ==
    /\ nStream <= MaxAttempts * Len(countries)
    /\ (http.op = "stream") =>
           /\ nStream >= 1
           /\ http.country = countries[((nStream - 1) \div MaxAttempts) + 1]
           /\ http.attempt = (nStream - 1) % MaxAttempts
    /\ (pc = "stream" /\ nStream > 0) => status # "completed"

C15_Witness ==
    /\ http.op = "stream" /\ http.ok /\ Len(countries) = 3
    /\ nStream = 8 /\ http.country = "FR" /\ http.attempt = 1

\* C16: every status poll of a job but the first snapshot is preceded by a
\* sleep made after the job's previous status poll.
C16_SleepBetweenPolls ==
    (http.op = "status" /\ polled /\ http.prev # None) => http.slept

\* C17: the timeout message is emitted only by a check made more than 60
\* seconds after the first snapshot, and the poll whose check gives the
\* attempt up was answered within the budget of 60 seconds plus the one sleep
\* before it, however long the polls take.
C17_BudgetNotExtended ==
    TimeoutFired =>
        /\ http.checked - processing_start > TimeoutSecs
        /\ http.arrived - processing_start <= TimeoutSecs + SleepSecs

Terminal == {"completed", "error"}

\* C18: once a status poll of a job has answered "completed" or "error", on
\* the first snapshot or inside the loop, the call is never again about to
\* poll that job, and its next step is not a status poll.
C18_NoPollAfterTerminal ==
    /\ []((pc = "poll") => (env.seen \cap Terminal = {} /\ status \notin Terminal))
    /\ []((pc = "first_status") => env.seen = {})
    /\ [][(env.seen \cap Terminal # {}) => http'.op # "status"]_vars

C18_Witness ==
    /\ pc = "download" /\ slept /\ "completed" \in env.seen
    /\ "processing" \in env.seen /\ http.op = "none"

\* C19: a status poll that answers "completed" is followed by the download:
\* the attempt keeps the status "completed", the timeout message is not
\* emitted, and the call does not go on to another attempt.
C19_CompletedNotDiscarded ==
    (StatusAnswered /\ http.status = "completed") =>
        /\ status = "completed"
        /\ ~TimeoutFired
        /\ pc \in {"sleep", "download"}

\* C20: the call ends only by returning a download result, UnknownService,
\* NotAvailable or RequestFailed; a stream answer with success = true and no
\* handoff id does not end it by a panic.
C20_AlwaysReturns ==
    /\ result \in {"none", "Ok", "UnknownService", "NotAvailable", "RequestFailed"}
    /\ (http.op = "stream" /\ http.ok /\ http.success /\ http.handoff = None) =>
           result # "Panic"
====
